---------------------------- MODULE Spec2Model ----------------------------
(***************************************************************************)
(* Employee-retention-risk notebook (Full_Retention_Model_Walkthrough).    *)
(*                                                                         *)
(* The notebook is a linear batch pipeline.  Every code cell is one        *)
(* action; the library calls a cell makes (pandas, numpy, scikit-learn,    *)
(* imbalanced-learn) are operators that compute what the call computes.    *)
(* Columns of dtype float64 are modelled bit-exactly: a float is the       *)
(* dyadic rational it denotes, every arithmetic operation is the exact     *)
(* operation followed by round-to-nearest-even to 53 significant bits.     *)
(*                                                                         *)
(* A cell that raises stops where it raised: the globals it had assigned   *)
(* keep their new values, and no later cell is run.  The evaluation cell   *)
(* (95d51272) and the SHAP cell assign nothing a later cell reads and are  *)
(* left out.  The Excel file the first cell reads is not in the            *)
(* repository; the behaviours start from the table it returns.             *)
(*                                                                         *)
(* What a call draws from a generator seeded with random_state = 42 (the   *)
(* order of the rows in train_test_split, the rows SMOTE starts from) is   *)
(* computed with that generator.  What depends on the entries of a matrix  *)
(* of standardised values, on an unseeded random forest or on the build    *)
(* of a library is any of the outcomes it can have.                        *)
(***************************************************************************)
EXTENDS Integers, Sequences, FiniteSets, TLC

(***************************************************************************)
(* Natural numbers of arbitrary size: little-endian sequences of limbs in  *)
(* base 2^15, without leading zero limbs (zero is the empty sequence).     *)
(* A float64 significand has 53 bits and the product of two has 106, more  *)
(* than a 32-bit integer holds.                                            *)
(***************************************************************************)
LimbBits == 3 * 5
Base == 2 ^ LimbBits

Max2(a, b) == IF a >= b THEN a ELSE b
Min2(a, b) == IF a <= b THEN a ELSE b

RECURSIVE BNorm(_)
BNorm(a) ==
    IF a = << >> THEN a
    ELSE IF a[Len(a)] = 0 THEN BNorm(SubSeq(a, 1, Len(a) - 1))
    ELSE a

Limb(a, i) == IF i >= 1 /\ i <= Len(a) THEN a[i] ELSE 0

BOfInt(k) ==
    BNorm(<< k % Base, (k \div Base) % Base, k \div (Base * Base) >>)

BAdd(a, b) ==
    LET n == Max2(Len(a), Len(b))
        c[i \in 0..n] ==
            IF i = 0 THEN 0 ELSE (Limb(a, i) + Limb(b, i) + c[i - 1]) \div Base
    IN  BNorm([i \in 1..(n + 1) |->
                 IF i <= n THEN (Limb(a, i) + Limb(b, i) + c[i - 1]) % Base
                 ELSE c[n]])

\* a - b, for a >= b
BSub(a, b) ==
    LET n == Len(a)
        br[i \in 0..n] ==
            IF i = 0 THEN 0
            ELSE IF Limb(a, i) - Limb(b, i) - br[i - 1] < 0 THEN 1 ELSE 0
    IN  BNorm([i \in 1..n |-> (Limb(a, i) - Limb(b, i) - br[i - 1] + Base) % Base])

RECURSIVE BCmpAt(_, _, _)
BCmpAt(a, b, i) ==
    IF i = 0 THEN 0
    ELSE IF a[i] > b[i] THEN 1
    ELSE IF a[i] < b[i] THEN -1
    ELSE BCmpAt(a, b, i - 1)

BCmp(a, b) ==
    IF Len(a) > Len(b) THEN 1
    ELSE IF Len(a) < Len(b) THEN -1
    ELSE BCmpAt(a, b, Len(a))

\* a * d for one limb d
BMulLimb(a, d) ==
    LET n == Len(a)
        c[i \in 0..n] ==
            IF i = 0 THEN 0 ELSE (a[i] * d + c[i - 1]) \div Base
    IN  BNorm([i \in 1..(n + 1) |->
                 IF i <= n THEN (a[i] * d + c[i - 1]) % Base ELSE c[n]])

\* a * Base^k
BShiftLimbs(a, k) ==
    IF a = << >> THEN a ELSE [i \in 1..k |-> 0] \o a

RECURSIVE BMulFrom(_, _, _)
BMulFrom(a, b, j) ==
    IF j > Len(b) THEN << >>
    ELSE BAdd(BShiftLimbs(BMulLimb(a, b[j]), j - 1), BMulFrom(a, b, j + 1))

BMul(a, b) == BMulFrom(a, b, 1)

\* a * 2^n
BShl(a, n) == BShiftLimbs(BMulLimb(a, 2 ^ (n % LimbBits)), n \div LimbBits)

\* floor(a / 2^n)
BShr(a, n) ==
    LET q == n \div LimbBits
        r == n % LimbBits
        len == Len(a) - q
    IN  IF len <= 0 THEN << >>
        ELSE BNorm([i \in 1..len |->
                      (a[i + q] \div (2 ^ r))
                      + (Limb(a, i + q + 1) % (2 ^ r)) * (2 ^ (LimbBits - r))])

\* number of bits of one limb d > 0
LimbLen(d) == CHOOSE k \in 1..LimbBits : 2 ^ (k - 1) <= d /\ d < 2 ^ k

BitLen(a) ==
    IF a = << >> THEN 0 ELSE (Len(a) - 1) * LimbBits + LimbLen(a[Len(a)])

\* bit i (from 0) of a
Bit(a, i) == (Limb(a, i \div LimbBits + 1) \div (2 ^ (i % LimbBits))) % 2

\* number of trailing zero bits of one limb d > 0
LimbTz(d) == CHOOSE k \in 0..(LimbBits - 1) : d % (2 ^ (k + 1)) = 2 ^ k

\* number of zero limbs at the low end of a > 0
RECURSIVE ZeroLimbs(_, _)
ZeroLimbs(a, i) == IF a[i] # 0 THEN i - 1 ELSE ZeroLimbs(a, i + 1)

\* number of trailing zero bits of a > 0
TrailingZeros(a) ==
    LET z == ZeroLimbs(a, 1) IN z * LimbBits + LimbTz(a[z + 1])

\* One step of binary long division.  q2 is twice the quotient so far, r2
\* twice the remainder plus the bit of the dividend brought down.
BDivPick(q2, r2, d) ==
    IF BCmp(r2, d) >= 0 THEN << BAdd(q2, << 1 >>), BSub(r2, d) >>
    ELSE << q2, r2 >>

\* bring down bit i of a, from quotient and remainder qr
BDivStep(a, d, i, qr) ==
    BDivPick(BShl(qr[1], 1), BAdd(BShl(qr[2], 1), BOfInt(Bit(a, i))), d)

\* Bits i down to lo of a brought down, from quotient and remainder qr.
\* (The test on nx makes the evaluator compute nx before it descends.)
RECURSIVE BDivBits(_, _, _, _, _)
BDivBitsFrom(a, d, i, lo, nx) ==
    IF Len(nx[1]) + Len(nx[2]) >= 0 THEN BDivBits(a, d, i, lo, nx) ELSE nx

BDivBits(a, d, i, lo, qr) ==
    IF i < lo THEN qr ELSE BDivBitsFrom(a, d, i - 1, lo, BDivStep(a, d, i, qr))

\* The same, one limb of a at a time (keeps the evaluation shallow).
RECURSIVE BDivLimbs(_, _, _, _)
BDivLimbsFrom(a, d, hi, nx) ==
    IF Len(nx[1]) + Len(nx[2]) >= 0 THEN BDivLimbs(a, d, hi, nx) ELSE nx

BDivLimbs(a, d, hi, qr) ==
    IF hi < 0 THEN qr
    ELSE BDivLimbsFrom(a, d, hi - LimbBits,
                       BDivBits(a, d, hi, Max2(hi - LimbBits + 1, 0), qr))

\* <<floor(a / d), a mod d>> for d > 0
BDivMod(a, d) == BDivLimbs(a, d, BitLen(a) - 1, << << >>, << >> >>)

(***************************************************************************)
(* float64.  A finite float is [neg, m, e], the number (-1)^neg * m * 2^e  *)
(* with m odd (zero is m = << >>, e = 0), so two floats are the same       *)
(* number exactly when they are the same record.  The exponent range of    *)
(* float64 (overflow to inf, subnormals) is never reached by the values    *)
(* of the notebook's columns modelled here and is not represented; the     *)
(* sign of zero is not represented either.                                 *)
(***************************************************************************)
Precision == 53

FZero == [neg |-> FALSE, m |-> << >>, e |-> 0]

FCanon(neg, m, e) ==
    IF m = << >> THEN FZero
    ELSE LET z == TrailingZeros(m)
         IN  [neg |-> neg, m |-> BShr(m, z), e |-> e + z]

\* (-1)^neg * m * 2^e rounded to the nearest float, ties to even
\* q is m without its low s bits, c compares those bits with one half
FRoundUp(neg, q, e, c) ==
    FCanon(neg, IF c > 0 \/ (c = 0 /\ Bit(q, 0) = 1) THEN BAdd(q, << 1 >>) ELSE q, e)

FRoundQuot(neg, m, e, s, q) ==
    FRoundUp(neg, q, e + s, BCmp(BSub(m, BShl(q, s)), BShl(<< 1 >>, s - 1)))

FRoundDrop(neg, m, e, s) == FRoundQuot(neg, m, e, s, BShr(m, s))

FRound(neg, m, e) ==
    IF BitLen(m) <= Precision THEN FCanon(neg, m, e)
    ELSE FRoundDrop(neg, m, e, BitLen(m) - Precision)

\* an integer -2^30 < k < 2^30 as a float (exact)
FOfInt(k) == IF k < 0 THEN FCanon(TRUE, BOfInt(-k), 0) ELSE FCanon(FALSE, BOfInt(k), 0)

\* k / 2^n as a float (exact)
FDyadic(k, n) == FCanon(k < 0, BOfInt(IF k < 0 THEN -k ELSE k), -n)

FNeg(x) == IF x.m = << >> THEN x ELSE [x EXCEPT !.neg = ~x.neg]

\* the exact sum x + y, as an unrounded float
FExactDiff(xneg, a, yneg, b, e, c) ==
    IF c = 0 THEN FZero
    ELSE IF c > 0 THEN [neg |-> xneg, m |-> BSub(a, b), e |-> e]
    ELSE [neg |-> yneg, m |-> BSub(b, a), e |-> e]

\* a and b are the significands of the two terms at the common exponent e
FExactAligned(xneg, a, yneg, b, e) ==
    IF xneg = yneg THEN [neg |-> xneg, m |-> BAdd(a, b), e |-> e]
    ELSE FExactDiff(xneg, a, yneg, b, e, BCmp(a, b))

FExactAdd(x, y) ==
    FExactAligned(x.neg, BShl(x.m, x.e - Min2(x.e, y.e)),
                  y.neg, BShl(y.m, y.e - Min2(x.e, y.e)), Min2(x.e, y.e))

FRoundExact(s) == FRound(s.neg, s.m, s.e)

FAdd(x, y) == FRoundExact(FExactAdd(x, y))

FSub(x, y) == FAdd(x, FNeg(y))

FMul(x, y) == FRound(x.neg # y.neg, BMul(x.m, y.m), x.e + y.e)

\* x / y for y # 0: the quotient to Precision + 2 bits and a sticky bit
FDivSticky(neg, qr, e) ==
    FRound(neg, BAdd(BShl(qr[1], 1), IF qr[2] = << >> THEN << >> ELSE << 1 >>), e)

FDivScaled(x, y, k) ==
    FDivSticky(x.neg # y.neg, BDivMod(BShl(x.m, k), y.m), x.e - y.e - k - 1)

FDiv(x, y) ==
    IF x.m = << >> THEN FZero
    ELSE FDivScaled(x, y, Precision + 2 + Max2(0, BitLen(y.m) - BitLen(x.m)))

\* the floats are ordered by sign, then by magnitude 2^(e + bits of m),
\* then by the sign of the exact difference
FCmp(x, y) ==
    IF x = y THEN 0
    ELSE IF x.m = << >> THEN (IF y.neg THEN 1 ELSE -1)
    ELSE IF y.m = << >> THEN (IF x.neg THEN -1 ELSE 1)
    ELSE IF x.neg # y.neg THEN (IF x.neg THEN -1 ELSE 1)
    ELSE IF x.e + BitLen(x.m) # y.e + BitLen(y.m)
    THEN (IF (x.e + BitLen(x.m) > y.e + BitLen(y.m)) = x.neg THEN -1 ELSE 1)
    ELSE IF FExactAdd(x, FNeg(y)).neg THEN -1 ELSE 1

FLt(x, y) == FCmp(x, y) < 0
FLe(x, y) == FCmp(x, y) <= 0

\* floor(x) as an integer, for 0 <= x < 2^30
BToInt(w) == Limb(w, 1) + Limb(w, 2) * Base

FFloor(x) == BToInt(IF x.e >= 0 THEN BShl(x.m, x.e) ELSE BShr(x.m, -x.e))


(***************************************************************************)
(* numpy.random.RandomState(seed): the Mersenne Twister MT19937.  A 32-bit *)
(* word is held as its two 16-bit halves << high, low >>.                  *)
(***************************************************************************)
RECURSIVE BitXor(_, _)
BitXor(a, b) ==
    IF a = 0 THEN b
    ELSE IF b = 0 THEN a
    ELSE 2 * BitXor(a \div 2, b \div 2) + ((a + b) % 2)

RECURSIVE BitAnd(_, _)
BitAnd(a, b) ==
    IF a = 0 \/ b = 0 THEN 0
    ELSE 2 * BitAnd(a \div 2, b \div 2) + ((a % 2) * (b % 2))

\* u ^ v and u & v
WXor(u, v) == << BitXor(u[1], v[1]), BitXor(u[2], v[2]) >>
WAnd(u, v) == << BitAnd(u[1], v[1]), BitAnd(u[2], v[2]) >>

\* u >> k and u << k, for 0 < k < 32
WShr(u, k) ==
    IF k >= 16 THEN << 0, u[1] \div (2 ^ (k - 16)) >>
    ELSE << u[1] \div (2 ^ k), (u[2] \div (2 ^ k)) + ((u[1] % (2 ^ k)) * (2 ^ (16 - k))) >>

WShl(u, k) ==
    IF k >= 16 THEN << (u[2] * (2 ^ (k - 16))) % 65536, 0 >>
    ELSE << ((u[1] * (2 ^ k)) % 65536) + (u[2] \div (2 ^ (16 - k))), (u[2] * (2 ^ k)) % 65536 >>

\* the product of two 16-bit numbers as a word, from the products of the
\* low and of the high byte of the first with the second
Mul16(a, b) ==
    << (((((a % 256) * b) + ((((a \div 256) * b) % 256) * 256)) \div 65536)
           + (((a \div 256) * b) \div 256)) % 65536,
       (((a % 256) * b) + ((((a \div 256) * b) % 256) * 256)) % 65536 >>

\* u * v in uint32 arithmetic
WMul(u, v) ==
    << (Mul16(u[2], v[2])[1] + Mul16(u[1], v[2])[2] + Mul16(u[2], v[1])[2]) % 65536,
       Mul16(u[2], v[2])[2] >>

\* init_genrand: mt[0] = seed ;
\* mt[i] = 1812433253 * (mt[i-1] ^ (mt[i-1] >> 30)) + i
NextSeedWord(prev, i) ==
    << (WMul(<< 27655, 35173 >>, WXor(prev, WShr(prev, 30)))[1]
           + ((WMul(<< 27655, 35173 >>, WXor(prev, WShr(prev, 30)))[2] + i) \div 65536)) % 65536,
       (WMul(<< 27655, 35173 >>, WXor(prev, WShr(prev, 30)))[2] + i) % 65536 >>

\* mt[j + 1] is word j of the state, of 624 words
RECURSIVE SeedWords(_, _)
SeedWords(mt, upto) ==
    IF Len(mt) >= upto THEN mt
    ELSE SeedWords(Append(mt, NextSeedWord(mt[Len(mt)], Len(mt))), upto)

RECURSIVE SeedChunks(_)
SeedChunks(mt) ==
    IF Len(mt) >= 624 THEN mt ELSE SeedChunks(SeedWords(mt, Min2(624, Len(mt) + 16)))

InitGenrand(seed) == SeedChunks(<< << seed \div 65536, seed % 65536 >> >>)

\* genrand_int32, the first call after seeding regenerates the state:
\* y = (mt[kk] & UPPER_MASK) | (mt[kk+1] & LOWER_MASK) ;
\* mt[kk] = mt[kk+397] ^ (y >> 1) ^ mag01[y & 1]
\* Word kk of the new state is made of words of the seeded state alone for
\* kk < 624 - 397; no run here draws that many words.  The two masks have no
\* bit in common, so that | is ^.
TwistWith(far, w) ==
    WXor(WXor(far, WShr(w, 1)), IF w[2] % 2 = 1 THEN << 39176, 45279 >> ELSE << 0, 0 >>)

Twisted(mt, kk) ==
    TwistWith(mt[kk + 397 + 1],
              WXor(WAnd(mt[kk + 1], << 32768, 0 >>), WAnd(mt[kk + 2], << 32767, 65535 >>)))

\* the tempering of an output word: y ^= (y >> 11) ;
\* y ^= (y << 7) & 0x9d2c5680 ; y ^= (y << 15) & 0xefc60000 ; y ^= (y >> 18)
TemperShr(w, k) == WXor(w, WShr(w, k))
TemperShl(w, k, mask) == WXor(w, WAnd(WShl(w, k), mask))

\* output kk (from 0) of the generator seeded to state mt, for kk < 624 - 397
Genrand(mt, kk) ==
    TemperShr(TemperShl(TemperShl(TemperShr(Twisted(mt, kk), 11),
                                  7, << 40236, 22144 >>),
                        15, << 61382, 0 >>),
              18)

\* gen_mask: the smallest 2^b - 1 that is at least max
RECURSIVE GenMask(_)
GenMask(max) == IF max = 0 THEN 0 ELSE 2 * GenMask(max \div 2) + 1

\* random_interval(max), for max < 2^16: no output is drawn for max = 0;
\* else outputs are drawn from output pos on until one is at most max under
\* the mask.  << the value, the next output >>
RECURSIVE RandomInterval(_, _, _)
RandomInterval(mt, pos, max) ==
    IF max = 0 THEN << 0, pos >>
    ELSE IF Genrand(mt, pos)[2] % (GenMask(max) + 1) <= max
    THEN << Genrand(mt, pos)[2] % (GenMask(max) + 1), pos + 1 >>
    ELSE RandomInterval(mt, pos + 1, max)

\* shuffle: for i in reversed(range(1, n)): j = random_interval(i) ;
\* arr[i], arr[j] = arr[j], arr[i]
RECURSIVE ShuffleFrom(_, _, _, _)
ShuffleSwap(mt, d, arr, i) ==
    ShuffleFrom(mt, d[2], [arr EXCEPT ![i + 1] = arr[d[1] + 1], ![d[1] + 1] = arr[i + 1]], i - 1)

ShuffleFrom(mt, pos, arr, i) ==
    IF i < 1 THEN arr ELSE ShuffleSwap(mt, RandomInterval(mt, pos, i), arr, i)

\* RandomState(seed).permutation(n), of the rows 1..n
Permutation(mt, n) == ShuffleFrom(mt, 0, [k \in 1..n |-> k], n - 1)

\* RandomState(seed).randint(0, high, size): each value is drawn as by
\* random_interval(high - 1)
RECURSIVE RandIntFrom(_, _, _, _, _)
RandIntFrom(mt, pos, max, size, out) ==
    IF Len(out) >= size THEN out
    ELSE RandIntFrom(mt, RandomInterval(mt, pos, max)[2], max, size,
                     Append(out, RandomInterval(mt, pos, max)[1]))

RandInt(mt, high, size) == RandIntFrom(mt, 0, high - 1, size, << >>)

\* random_state = 42 (lines 127 and 128)
random_state == 42

RandomState42 == InitGenrand(random_state)
\* ceil(x) as an integer, for 0 <= x < 2^30: a float with e < 0 is no integer
FCeil(x) == IF x.e < 0 THEN FFloor(x) + 1 ELSE FFloor(x)

(***************************************************************************)
(* The state of the notebook: its global variables.                        *)
(***************************************************************************)
VARIABLES
    pc,                 \* the last cell that ran to its end
    raised,             \* the exception that stopped the cell after it ("" while none)
    fe_runs,            \* how many times cell 1c4934a0 has been run
    df_loaded,          \* the table as pd.read_excel returned it (line 53)
    df,                 \* column name -> column (a sequence, one entry per row)
    X,                  \* cell 2662ee91
    y,
    scaler_std,
    X_scaled,
    X_train,            \* cell 42336f1c
    X_test,
    y_train,
    y_test,
    X_train_resampled,
    y_train_resampled,
    rfe_support,        \* cell 3af43cdb: rfe_selector.support_
    X_selected,
    X_scaled_selected,
    X_train_sel,
    X_test_sel,
    y_train_sel,
    y_test_sel,
    X_train_sel_res,
    y_train_sel_res,
    calibrated_rf,      \* cell bf7e1d04
    cv_scores,          \* cell 95d51272
    percentile_50,      \* cell d93e72bf
    percentile_90,
    df_sorted           \* cell 1df3012f


vars == << pc, raised, fe_runs, df, scaler_std, calibrated_rf, cv_scores, df_loaded, X, y, X_scaled, X_train, X_test, y_train, y_test, X_train_resampled, y_train_resampled, rfe_support, X_selected, X_scaled_selected, X_train_sel, X_test_sel, y_train_sel, y_test_sel, X_train_sel_res, y_train_sel_res, percentile_50, percentile_90, df_sorted >>

\* the value of a global no cell has assigned yet
Unset == "unset"

(***************************************************************************)
(* pandas.DataFrame                                                        *)
(***************************************************************************)
NumRows(d) == Len(d[CHOOSE c \in DOMAIN d : TRUE])

\* d[c] = col
SetCol(d, c, col) == [k \in DOMAIN d \cup {c} |-> IF k = c THEN col ELSE d[k]]

\* d.drop(columns = names, errors = "ignore")
Drop(d, names) == [k \in DOMAIN d \ names |-> d[k]]

\* d.loc[:, support]
Loc(d, support) == [k \in support |-> d[k]]

\* d.iloc[indexer]
Take(d, indexer) == [k \in DOMAIN d |-> [j \in 1..Len(indexer) |-> d[k][indexer[j]]]]

Values(col) == {col[i] : i \in 1..Len(col)}

\* what a statement leaves behind: the exception it raised ("" when none)
\* and the table
Ok(d) == [raised |-> "", df |-> d]
Raise(exception, d) == [raised |-> exception, df |-> d]

(***************************************************************************)
(* Cell 1c4934a0: Feature Engineering.  The source columns hold int64      *)
(* values; "/" is true division and gives float64.                         *)
(***************************************************************************)
\* d[a] * d[b]
Product(d, a, b) == [i \in 1..NumRows(d) |-> d[a][i] * d[b][i]]

\* d[a] / (d[b] + 1)
Ratio(d, a, b) == [i \in 1..NumRows(d) |-> FDiv(FOfInt(d[a][i]), FOfInt(d[b][i] + 1))]

\* d[out] = <an expression over d[a] and d[b]>: indexing a column the table
\* does not have raises KeyError
Assign(d, out, a, b, col) ==
    IF a \in DOMAIN d /\ b \in DOMAIN d THEN Ok(SetCol(d, out, col))
    ELSE Raise("KeyError", d)

\* a variant that tests either source column (it is not the notebook's)
EngagementIndexEither(d) ==
    IF "JobSatisfaction" \in DOMAIN d \/ "WorkLifeBalance" \in DOMAIN d
    THEN Assign(d, "Engagement_Index", "JobSatisfaction", "WorkLifeBalance",
                Product(d, "JobSatisfaction", "WorkLifeBalance"))
    ELSE Ok(d)

\* lines 75-76
EngagementIndex(d) ==
    IF "JobSatisfaction" \in DOMAIN d /\ "WorkLifeBalance" \in DOMAIN d
    THEN Assign(d, "Engagement_Index", "JobSatisfaction", "WorkLifeBalance",
                Product(d, "JobSatisfaction", "WorkLifeBalance"))
    ELSE Ok(d)

\* a variant that adds the 1 to YearsAtCompany in place (it is not the
\* notebook's)
PromotionRateInPlace(d) ==
    IF "YearsSinceLastPromotion" \in DOMAIN d /\ "YearsAtCompany" \in DOMAIN d
    THEN Assign(SetCol(d, "YearsAtCompany",
                       [i \in 1..NumRows(d) |-> d["YearsAtCompany"][i] + 1]),
                "Promotion_Rate", "YearsSinceLastPromotion", "YearsAtCompany",
                Ratio(d, "YearsSinceLastPromotion", "YearsAtCompany"))
    ELSE Ok(d)

\* lines 77-78
PromotionRate(d) ==
    IF "YearsSinceLastPromotion" \in DOMAIN d /\ "YearsAtCompany" \in DOMAIN d
    THEN Assign(d, "Promotion_Rate", "YearsSinceLastPromotion", "YearsAtCompany",
                Ratio(d, "YearsSinceLastPromotion", "YearsAtCompany"))
    ELSE Ok(d)

\* lines 79-80
OvertimeSensitiveRole(d) ==
    IF "Doing_Overtime" \in DOMAIN d /\ "Laboratory_Technician" \in DOMAIN d
    THEN Assign(d, "Overtime_SensitiveRole", "Doing_Overtime", "Laboratory_Technician",
                Product(d, "Doing_Overtime", "Laboratory_Technician"))
    ELSE Ok(d)

\* the statements of the cell in order; the first that raises ends the cell
Then(r, Statement(_)) == IF r.raised # "" THEN r ELSE Statement(r.df)

FeatureEngineering(d) == Then(Then(EngagementIndex(d), PromotionRate), OvertimeSensitiveRole)

\* how often the cell is run again
MaxRuns == 2

FeatureEngineeringCell ==
    /\ pc \in {"loaded", "engineered"}
    /\ raised = ""
    /\ fe_runs < MaxRuns
    /\ \E r \in {FeatureEngineering(df)} :
          /\ df' = r.df
          /\ raised' = r.raised
          /\ pc' = IF r.raised = "" THEN "engineered" ELSE pc
    /\ fe_runs' = fe_runs + 1
    /\ UNCHANGED << scaler_std, calibrated_rf, cv_scores, df_loaded, X, y, X_scaled, X_train, X_test, y_train, y_test, X_train_resampled, y_train_resampled, rfe_support, X_selected, X_scaled_selected, X_train_sel, X_test_sel, y_train_sel, y_test_sel, X_train_sel_res, y_train_sel_res, percentile_50, percentile_90, df_sorted >>

(***************************************************************************)
(* numpy matrices.  fit_transform returns an array without column names.   *)
(* A matrix is held as what determines its entries: the columns it has,    *)
(* for each of its rows the table row it is made of, and the fit of the    *)
(* scaler whose mean_ and scale_ standardised it; the entry of row i and   *)
(* column c is (X[c][i] - mean_[c]) / scale_[c].  A row SMOTE synthesised  *)
(* lies between two rows: base + step * (neighbour - base).                *)
(***************************************************************************)
Original(i) == [base |-> i, neighbour |-> 0]
Synthetic(i, j) == [base |-> i, neighbour |-> j]
IsSynthetic(r) == r.neighbour # 0

\* m[indexer]
TakeRows(m, indexer) ==
    [m EXCEPT !.rows = [k \in 1..Len(indexer) |-> m.rows[indexer[k]]]]

\* y.iloc[indexer]
TakeSeq(col, indexer) == [k \in 1..Len(indexer) |-> col[indexer[k]]]

(***************************************************************************)
(* Cell 2662ee91: Prepare Data                                             *)
(***************************************************************************)
\* StandardScaler()
NewStandardScaler == [n_fits |-> 0, feature_names_in_ |-> {}, n_samples_seen_ |-> 0]

\* scaler.fit(t): mean_ and scale_ are recomputed from the columns of t
StandardScalerFit(scaler, t) ==
    [n_fits |-> scaler.n_fits + 1,
     feature_names_in_ |-> DOMAIN t,
     n_samples_seen_ |-> NumRows(t)]

\* scaler.transform(t)
StandardScalerTransform(scaler, t) ==
    [columns |-> DOMAIN t,
     rows |-> [i \in 1..NumRows(t) |-> Original(i)],
     fit |-> scaler.n_fits]

PrepareCell ==
    /\ pc = "engineered"
    /\ raised = ""
    /\ X' = Drop(df, {"Retained", "EmployeeNumber"})
    /\ IF "Retained" \notin DOMAIN df
       THEN /\ raised' = "KeyError"
            /\ UNCHANGED << pc, y, scaler_std, X_scaled >>
       ELSE /\ y' = df["Retained"]
            /\ IF DOMAIN X' = {} \/ NumRows(df) = 0
               THEN \* fit has recorded the column names of X when the
                    \* validation of its shape raises; nothing is fitted
                    /\ scaler_std' = [NewStandardScaler EXCEPT
                                         !.feature_names_in_ = DOMAIN X']
                    /\ raised' = "ValueError"
                    /\ UNCHANGED << pc, X_scaled >>
               ELSE /\ scaler_std' = StandardScalerFit(NewStandardScaler, X')
                    /\ X_scaled' = StandardScalerTransform(scaler_std', X')
                    /\ pc' = "prepared"
                    /\ UNCHANGED raised
    /\ UNCHANGED << fe_runs, df, calibrated_rf, cv_scores, df_loaded, X_train, X_test, y_train, y_test, X_train_resampled, y_train_resampled, rfe_support, X_selected, X_scaled_selected, X_train_sel, X_test_sel, y_train_sel, y_test_sel, X_train_sel_res, y_train_sel_res, percentile_50, percentile_90, df_sorted >>

(***************************************************************************)
(* train_test_split(m, ycol, test_size = 0.2, random_state = 42)           *)
(***************************************************************************)
\* the literal 0.2
TestSize == FDiv(FOfInt(2), FOfInt(10))

\* n_test = ceil(test_size * n_samples)
NumTest(n) == FCeil(FMul(TestSize, FOfInt(n)))

\* ind_test = permutation[:n_test] ; ind_train = permutation[n_test:]
SplitAt(m, ycol, perm, n_test) ==
    [raised |-> "",
     X_train |-> TakeRows(m, SubSeq(perm, n_test + 1, Len(perm))),
     X_test |-> TakeRows(m, SubSeq(perm, 1, n_test)),
     y_train |-> TakeSeq(ycol, SubSeq(perm, n_test + 1, Len(perm))),
     y_test |-> TakeSeq(ycol, SubSeq(perm, 1, n_test))]

\* n_train = n_samples - n_test: an empty train set raises; else
\* permutation = check_random_state(42).permutation(n_samples)
TrainTestSplit(m, ycol) ==
    IF Len(m.rows) - NumTest(Len(m.rows)) = 0 THEN [raised |-> "ValueError"]
    ELSE SplitAt(m, ycol, Permutation(RandomState42, Len(m.rows)), NumTest(Len(m.rows)))

(***************************************************************************)
(* SMOTE(random_state = 42).fit_resample(m, ycol), sampling_strategy       *)
(* "auto": the minority class is filled up to the size of the majority     *)
(* class.  With nn_num the k_neighbors nearest minority rows of each       *)
(* minority row, _make_samples draws                                       *)
(*   samples_indices = check_random_state(42).randint(0, nn_num.size, n)   *)
(* and new row s lies between minority row samples_indices[s] // k and     *)
(* its neighbour nn_num[., samples_indices[s] % k].  Which rows are near   *)
(* depends on the entries, which a matrix here does not hold: nn_num is    *)
(* any list of k other minority rows for each minority row.                *)
(***************************************************************************)
k_neighbors == 5

Count(col, c) == Cardinality({k \in 1..Len(col) : col[k] = c})

\* the positions of the rows of class c, in order
Positions(col, c) ==
    [j \in 1..Count(col, c) |->
        CHOOSE k \in 1..Len(col) : col[k] = c /\ Count(SubSeq(col, 1, k), c) = j]

\* the class with fewer rows
MinorityClass(col) == IF Count(col, 0) < Count(col, 1) THEN 0 ELSE 1

\* rows = samples_indices // k
BaseOf(index) == (index \div k_neighbors) + 1

\* nn_num[rows, cols] with cols = samples_indices % k: for each new row one
\* of the other minority rows, the same for the same entry of nn_num and
\* another for another entry of the same row
Neighbours(n_minority, indices) ==
    {nb \in [1..Len(indices) -> 1..n_minority] :
        /\ \A s \in 1..Len(indices) : nb[s] # BaseOf(indices[s])
        /\ \A s, t \in 1..Len(indices) :
              BaseOf(indices[s]) = BaseOf(indices[t])
                  => (nb[s] = nb[t]
                         <=> indices[s] % k_neighbors = indices[t] % k_neighbors)}

SyntheticRows(m, at, indices, nb) ==
    [s \in 1..Len(indices) |->
        Synthetic(m.rows[at[BaseOf(indices[s])]].base, m.rows[at[nb[s]]].base)]

\* X_resampled = vstack(X, X_new) ; y_resampled = hstack(y, y_new)
MakeSamples(m, ycol, minority, at, indices) ==
    {[raised |-> "",
      X |-> [m EXCEPT !.rows = m.rows \o SyntheticRows(m, at, indices, nb)],
      y |-> ycol \o [s \in 1..Len(indices) |-> minority]] :
        nb \in Neighbours(Len(at), indices)}

\* no row is made for a class already as large as the majority; kneighbors
\* raises when the class has fewer than k_neighbors + 1 rows; else
\* samples_indices = random_state.randint(low = 0, high = nn_num.size, size = need)
FitResampleClass(m, ycol, minority, need) ==
    IF need = 0 THEN {[raised |-> "", X |-> m, y |-> ycol]}
    ELSE IF Count(ycol, minority) < k_neighbors + 1
    THEN {[raised |-> "ValueError", X |-> m, y |-> ycol]}
    ELSE MakeSamples(m, ycol, minority, Positions(ycol, minority),
                     RandInt(RandomState42, Count(ycol, minority) * k_neighbors, need))

\* the outcomes of fit_resample: a target with one class raises
FitResample(m, ycol) ==
    IF Cardinality(Values(ycol)) < 2
    THEN {[raised |-> "ValueError", X |-> m, y |-> ycol]}
    ELSE FitResampleClass(m, ycol, MinorityClass(ycol),
                          Count(ycol, 1 - MinorityClass(ycol)) - Count(ycol, MinorityClass(ycol)))

\* a variant that oversamples all the rows, the test rows included (it is
\* not the notebook's)
BalanceAllRows(s) ==
    {[split |-> s, res |-> r] :
        r \in FitResample([s.X_train EXCEPT !.rows = s.X_train.rows \o s.X_test.rows],
                          s.y_train \o s.y_test)}

\* sm.fit_resample(X_train, y_train) on the partitions s of a split
Balance(s) == {[split |-> s, res |-> r] : r \in FitResample(s.X_train, s.y_train)}

\* lines 127-129 and 153-154: when the split raises nothing is resampled
SplitAndBalance(m, ycol) ==
    IF TrainTestSplit(m, ycol).raised # ""
    THEN {[split |-> TrainTestSplit(m, ycol), res |-> [raised |-> TrainTestSplit(m, ycol).raised]]}
    ELSE Balance(TrainTestSplit(m, ycol))

(***************************************************************************)
(* Cell 42336f1c: Train/Test Split and SMOTE                               *)
(***************************************************************************)
SplitCell ==
    /\ pc = "prepared"
    /\ raised = ""
    /\ \E b \in SplitAndBalance(X_scaled, y) :
          /\ raised' = b.res.raised
          /\ IF b.split.raised # ""
             THEN UNCHANGED << pc, X_train, X_test, y_train, y_test,
                               X_train_resampled, y_train_resampled >>
             ELSE /\ X_train' = b.split.X_train
                  /\ X_test' = b.split.X_test
                  /\ y_train' = b.split.y_train
                  /\ y_test' = b.split.y_test
                  /\ IF b.res.raised # ""
                     THEN UNCHANGED << pc, X_train_resampled, y_train_resampled >>
                     ELSE /\ pc' = "balanced"
                          /\ X_train_resampled' = b.res.X
                          /\ y_train_resampled' = b.res.y
    /\ UNCHANGED << fe_runs, df, scaler_std, calibrated_rf, cv_scores, df_loaded, X, y, X_scaled, rfe_support, X_selected, X_scaled_selected, X_train_sel, X_test_sel, y_train_sel, y_test_sel, X_train_sel_res, y_train_sel_res, percentile_50, percentile_90, df_sorted >>

(***************************************************************************)
(* Cell 3af43cdb: Feature Selection (RFE).  RFE.fit validates its input   *)
(* with ensure_min_features = 2 and raises ValueError for a matrix of      *)
(* fewer than two columns.  Otherwise it starts from all the columns and,  *)
(* while more than n_features_to_select remain, fits the estimator and     *)
(* drops the column of least importance (step = 1).  The estimator is      *)
(* RandomForestClassifier() with no random_state: any remaining column may *)
(* be the one dropped.  A raise at line 150 leaves every name of the cell  *)
(* from line 150 on unassigned.                                            *)
(***************************************************************************)
n_features_to_select == 20

\* a variant of the loop test that is off by one (it is not sklearn's)
RFEContinueAtTarget(support) == Cardinality(support) >= n_features_to_select

\* while np.sum(support_) > n_features_to_select
RFEContinue(support) == Cardinality(support) > n_features_to_select

\* the sets of columns the loop can end with, started from support
RECURSIVE RFEEliminate(_)
RFEEliminate(support) ==
    IF RFEContinue(support)
    THEN UNION {RFEEliminate(support \ {f}) : f \in support}
    ELSE {support}

\* rfe_selector.fit(m, ycol): the outcomes, a raise or a fitted support_
RFEFit(m, ycol) ==
    IF Cardinality(m.columns) < 2
    THEN {[raised |-> "ValueError"]}
    ELSE {[raised |-> "", support_ |-> support] : support \in RFEEliminate(m.columns)}

SelectCell ==
    /\ pc = "balanced"
    /\ raised = ""
    /\ \E rfe_selector \in RFEFit(X_scaled, y) :
       IF rfe_selector.raised # ""
       THEN /\ raised' = rfe_selector.raised
            /\ UNCHANGED << pc, rfe_support, X_selected, scaler_std, X_scaled_selected,
                            X_train_sel, X_test_sel, y_train_sel, y_test_sel,
                            X_train_sel_res, y_train_sel_res >>
       ELSE
       \E selected \in {Loc(X, rfe_selector.support_)} :
       \E scaler \in {StandardScalerFit(scaler_std, selected)} :
       \E scaled \in {StandardScalerTransform(scaler, selected)} :
       \E b \in SplitAndBalance(scaled, y) :
          /\ rfe_support' = rfe_selector.support_
          /\ X_selected' = selected
          /\ scaler_std' = scaler
          /\ X_scaled_selected' = scaled
          /\ raised' = b.res.raised
          /\ IF b.split.raised # ""
             THEN UNCHANGED << pc, X_train_sel, X_test_sel, y_train_sel, y_test_sel,
                               X_train_sel_res, y_train_sel_res >>
             ELSE /\ X_train_sel' = b.split.X_train
                  /\ X_test_sel' = b.split.X_test
                  /\ y_train_sel' = b.split.y_train
                  /\ y_test_sel' = b.split.y_test
                  /\ IF b.res.raised # ""
                     THEN UNCHANGED << pc, X_train_sel_res, y_train_sel_res >>
                     ELSE /\ pc' = "selected"
                          /\ X_train_sel_res' = b.res.X
                          /\ y_train_sel_res' = b.res.y
    /\ UNCHANGED << fe_runs, df, calibrated_rf, cv_scores, df_loaded, X, y, X_scaled, X_train, X_test, y_train, y_test, X_train_resampled, y_train_resampled, percentile_50, percentile_90, df_sorted >>

(***************************************************************************)
(* Cell bf7e1d04: Model Training & Calibration.  The fitted classifier is  *)
(* held as what it keeps of its training matrix: the number of columns     *)
(* (n_features_in_), and which columns and which fit of the scaler its     *)
(* training rows had.  GridSearchCV(cv = 3).fit raises when every class    *)
(* has fewer than 3 rows; CalibratedClassifierCV(cv = 5).fit raises when a *)
(* class has fewer than 5 rows.                                            *)
(***************************************************************************)
\* line 181: cv = 3
cv_rf_grid == 3

\* line 185: cv = 5
cv == 5

\* a variant that trains on the rows of the first split (it is not the
\* notebook's)
TrainingXFirstSplit == X_train_resampled

\* lines 182 and 186: the matrix and the labels both fits are given
TrainingX == X_train_sel_res
TrainingY == y_train_sel_res

\* line 182: "" or the exception rf_grid.fit raises
GridSearchFit(m, ycol) ==
    IF Count(ycol, 0) < cv_rf_grid /\ Count(ycol, 1) < cv_rf_grid THEN "ValueError" ELSE ""

\* line 185: the classifier before it is fitted
NewCalibratedClassifierCV == [cv |-> cv, fitted |-> FALSE]

\* line 186
Fit(classifier, m, ycol) ==
    IF Count(ycol, 0) < classifier.cv \/ Count(ycol, 1) < classifier.cv
    THEN [raised |-> "ValueError", model |-> classifier]
    ELSE [raised |-> "",
          model |-> [cv |-> classifier.cv,
                     fitted |-> TRUE,
                     n_features_in_ |-> Cardinality(m.columns),
                     trained_on |-> [columns |-> m.columns, fit |-> m.fit]]]

TrainCell ==
    /\ pc = "selected"
    /\ raised = ""
    /\ IF GridSearchFit(TrainingX, TrainingY) # ""
       THEN /\ raised' = GridSearchFit(TrainingX, TrainingY)
            /\ UNCHANGED << pc, calibrated_rf >>
       ELSE \E f \in {Fit(NewCalibratedClassifierCV, TrainingX, TrainingY)} :
               /\ calibrated_rf' = f.model
               /\ raised' = f.raised
               /\ pc' = IF f.raised = "" THEN "trained" ELSE pc
    /\ UNCHANGED << fe_runs, cv_scores, df, scaler_std, df_loaded, X, y, X_scaled, X_train, X_test, y_train, y_test, X_train_resampled, y_train_resampled, rfe_support, X_selected, X_scaled_selected, X_train_sel, X_test_sel, y_train_sel, y_test_sel, X_train_sel_res, y_train_sel_res, percentile_50, percentile_90, df_sorted >>

(***************************************************************************)
(* Cell 95d51272: Model Evaluation.  The predictions for the test rows and *)
(* the reports made of them are printed and read by no later cell.         *)
(* cross_val_score(calibrated_rf, X_scaled_selected, y, cv = 5) fits a     *)
(* clone of the classifier on the training part of each fold of            *)
(* StratifiedKFold(5); a fit that raises gives the score nan, and          *)
(* cross_val_score raises when all the fits have raised.                   *)
(***************************************************************************)
\* line 211: cv = 5
n_splits == 5

\* StratifiedKFold(n_splits).split(m, ycol): the fold whose test part has
\* row r.  The classes are taken in the order of their first rows; fold f
\* gets of a class as many rows as the sorted labels have of it at the
\* positions f, f + n_splits, ..., and the rows of a class fill the folds
\* in row order.
TestFolds(ycol) ==
    [r \in 1..Len(ycol) |->
        CHOOSE f \in 0..(n_splits - 1) :
            LET lo == IF ycol[r] = ycol[1] THEN 0 ELSE Count(ycol, ycol[1])
                hi == IF ycol[r] = ycol[1] THEN Count(ycol, ycol[1]) - 1 ELSE Len(ycol) - 1
                rank == Count(SubSeq(ycol, 1, r), ycol[r])
            IN  /\ Cardinality({j \in lo..hi : j % n_splits < f}) < rank
                /\ rank <= Cardinality({j \in lo..hi : j % n_splits <= f})]

\* cross_val_score(classifier, m, ycol, cv = n_splits, scoring = 'f1')
CrossValScore(classifier, m, ycol) ==
    IF Count(ycol, 0) < n_splits /\ Count(ycol, 1) < n_splits
    THEN [raised |-> "ValueError"]
    ELSE IF \A f \in 0..(n_splits - 1) :
               Fit(classifier, m,
                   TakeSeq(ycol, Positions([r \in 1..Len(ycol) |-> TestFolds(ycol)[r] # f],
                                           TRUE))).raised # ""
    THEN [raised |-> "ValueError"]
    ELSE [raised |-> "",
          cv_scores |->
              [i \in 1..n_splits |->
                  IF Fit(classifier, m,
                         TakeSeq(ycol, Positions([r \in 1..Len(ycol) |->
                                                     TestFolds(ycol)[r] # i - 1],
                                                 TRUE))).raised # ""
                  THEN "nan" ELSE "f1"]]

EvaluateCell ==
    /\ pc = "trained"
    /\ raised = ""
    /\ \E scores \in {CrossValScore(calibrated_rf, X_scaled_selected, y)} :
          /\ raised' = scores.raised
          /\ IF scores.raised # ""
             THEN UNCHANGED << pc, cv_scores >>
             ELSE cv_scores' = scores.cv_scores /\ pc' = "evaluated"
    /\ UNCHANGED << fe_runs, df, scaler_std, calibrated_rf, df_loaded, X, y, X_scaled, X_train, X_test, y_train, y_test, X_train_resampled, y_train_resampled, rfe_support, X_selected, X_scaled_selected, X_train_sel, X_test_sel, y_train_sel, y_test_sel, X_train_sel_res, y_train_sel_res, percentile_50, percentile_90, df_sorted >>

(***************************************************************************)
(* sklearn.preprocessing.MinMaxScaler(), feature_range = (0, 1)            *)
(***************************************************************************)
FOne == FOfInt(1)
Eps == FDyadic(1, Precision - 1)

ColMin(col) == CHOOSE v \in Values(col) : \A w \in Values(col) : FLe(v, w)
ColMax(col) == CHOOSE v \in Values(col) : \A w \in Values(col) : FLe(w, v)

\* a range below 10 eps counts as zero and is replaced by 1.0
HandleZerosInScale(scale) ==
    IF FLt(scale, FMul(FOfInt(10), Eps)) THEN FOne ELSE scale

\* min_ = feature_range[0] - data_min * scale_
MinMaxParams(data_min, scale) ==
    [scale_ |-> scale, min_ |-> FSub(FOfInt(0), FMul(data_min, scale))]

\* scale_ = (feature_range[1] - feature_range[0]) / _handle_zeros_in_scale(data_range)
MinMaxPartialFit(data_min, data_max) ==
    MinMaxParams(data_min,
                 FDiv(FOfInt(1 - 0), HandleZerosInScale(FSub(data_max, data_min))))

MinMaxFit(col) == MinMaxPartialFit(ColMin(col), ColMax(col))

\* X *= scale_ ; X += min_
MinMaxTransform(sc, col) ==
    [i \in 1..Len(col) |-> FAdd(FMul(col[i], sc.scale_), sc.min_)]

MinMaxFitTransform(col) == MinMaxTransform(MinMaxFit(col), col)

\* 1 - scaler.fit_transform(df[["Predicted_Prob_Stay"]])
RetentionRisk(prob) ==
    LET t == MinMaxFitTransform(prob)
    IN  [i \in 1..Len(prob) |-> FSub(FOne, t[i])]

(***************************************************************************)
(* pandas.Series.quantile(q): numpy.percentile(values, q * 100), method    *)
(* "linear".                                                               *)
(***************************************************************************)
\* the number of entries of col that come before entry i in ascending order
\* (ties in row order)
RankAsc(col, i) ==
    Cardinality({j \in 1..Len(col) :
                    \/ FLt(col[j], col[i])
                    \/ (col[j] = col[i] /\ j < i)})

SortAsc(col) ==
    LET rk == [i \in 1..Len(col) |-> RankAsc(col, i)]
    IN  [k \in 1..Len(col) |-> col[CHOOSE i \in 1..Len(col) : rk[i] = k - 1]]

\* numpy _lerp
LerpDiff(a, b, t, diff_b_a) ==
    IF FLe(FDyadic(1, 1), t)
    THEN FSub(b, FMul(diff_b_a, FSub(FOne, t)))
    ELSE FAdd(a, FMul(diff_b_a, t))

Lerp(a, b, t) == LerpDiff(a, b, t, FSub(b, a))

\* numpy _get_indexes: the index (from 0) of the entry before the virtual
\* index, -1 (the last entry) when the virtual index is on the last entry
PreviousIndex(n, virtual_index) ==
    IF FLe(FOfInt(n - 1), virtual_index) THEN -1 ELSE FFloor(virtual_index)

\* previous = arr[previous_index], next = arr[previous_index + 1],
\* gamma = virtual_index - previous_index
QuantileBetween(arr, virtual_index, previous_index) ==
    Lerp(IF previous_index = -1 THEN arr[Len(arr)] ELSE arr[previous_index + 1],
         IF previous_index = -1 THEN arr[Len(arr)] ELSE arr[previous_index + 2],
         FSub(virtual_index, FOfInt(previous_index)))

QuantileAt(arr, virtual_index) ==
    QuantileBetween(arr, virtual_index, PreviousIndex(Len(arr), virtual_index))

\* quantiles = q * 100 / 100 ; virtual_index = (n - 1) * quantiles
Quantile(col, q) ==
    QuantileAt(SortAsc(col),
               FMul(FOfInt(Len(col) - 1), FDiv(FMul(q, FOfInt(100)), FOfInt(100))))

(***************************************************************************)
(* pandas.cut(x, bins, labels), right = True, duplicates = "raise".  A bin *)
(* edge is a float or one of the two infinities.                           *)
(***************************************************************************)
NegInf == [inf |-> TRUE, neg |-> TRUE]
PosInf == [inf |-> TRUE, neg |-> FALSE]
IsInf(x) == "inf" \in DOMAIN x

\* a < b for floats and infinities
ELt(a, b) ==
    IF a = b THEN FALSE
    ELSE IF IsInf(a) THEN a.neg
    ELSE IF IsInf(b) THEN ~b.neg
    ELSE FLt(a, b)

NaN == "NaN"

\* a variant that searches from the right, as right = False would (it is
\* not the notebook's)
SearchSortedRight(bins, x) == Cardinality({k \in 1..Len(bins) : ~ELt(x, bins[k])})

\* bins.searchsorted(x, side = "left")
SearchSortedLeft(bins, x) == Cardinality({k \in 1..Len(bins) : ELt(bins[k], x)})

\* the label of bin ids; a value outside every bin has no category
CutLabel(ids, nbins, labels) ==
    IF ids = 0 \/ ids = nbins THEN NaN ELSE labels[ids]

\* the result is [raised, values]: raised is the ValueError pandas raises
\* ("" when it raises none), values the categorical column
Cut(col, bins, labels) ==
    IF \E k \in 1..(Len(bins) - 1) : ELt(bins[k + 1], bins[k])
    THEN [raised |-> "ValueError: bins must increase monotonically.", values |-> << >>]
    ELSE IF Cardinality(Values(bins)) < Len(bins) /\ Len(bins) # 2
    THEN [raised |-> "ValueError: Bin edges must be unique", values |-> << >>]
    ELSE [raised |-> "",
          values |-> [i \in 1..Len(col) |->
                        CutLabel(SearchSortedLeft(bins, col[i]), Len(bins), labels)]]

\* a variant with the labels in the opposite order (it is not the notebook's)
RiskLabelsReversed == << "High Risk", "Moderate Risk", "Low Risk" >>

\* line 238
RiskLabels == << "Low Risk", "Moderate Risk", "High Risk" >>

\* the literals 0.90 and 0.50
Q90 == FDiv(FOfInt(90), FOfInt(100))
Q50 == FDiv(FOfInt(50), FOfInt(100))

(***************************************************************************)
(* calibrated_rf.predict_proba(m)[:, 1]: one probability for each row of   *)
(* m, any floats in [0, 1].  They are drawn from batches of pairwise       *)
(* distinct values and batches with ties: a run of two or three rows, or   *)
(* of all rows or all but one, of one probability, or two runs of two rows *)
(* as far apart as the two cut points.  The rows of a batch are not in the *)
(* order of their probabilities.                                           *)
(***************************************************************************)
\* the probability of rank r
GridProb(r) == FDyadic(3 + r, 5)

\* a fixed order of n rows that is not the order of the scores
Interleave(n, i) == IF 2 * i - 1 <= n THEN 2 * i - 1 ELSE 2 * (n - i + 1)

\* the ranks first .. first + len - 1 fall on rank first
Collapse(r, first, len) == IF r >= first /\ r < first + len THEN first ELSE r

\* a run << first, len >> of 2 or 3 rows, or of all rows or all but one
RunBatches(n) ==
    { [i \in 1..n |-> GridProb(Collapse(Interleave(n, i), run[1], run[2]))] :
        run \in {r \in (1..n) \X {2, 3, n - 1, n} : r[1] + r[2] - 1 <= n} }

\* the distance of the ranks next to percentiles 50 and 90
CutGap(n) == (((n - 1) * 9) \div 10) - ((n - 1) \div 2)

PairBatches(n) ==
    { [i \in 1..n |->
          GridProb(Collapse(Collapse(Interleave(n, i), first, 2), first + CutGap(n), 2))] :
        first \in 1..(n - CutGap(n) - 1) }

\* batches of pairwise distinct probabilities (n of n + 1 ranks), batches
\* with a run and batches with two runs
ProbBatches(n) ==
    { [i \in 1..n |->
          GridProb(IF Interleave(n, i) < skip THEN Interleave(n, i)
                   ELSE Interleave(n, i) + 1)] :
        skip \in 1..(n + 1) }
    \cup RunBatches(n) \cup PairBatches(n)

(***************************************************************************)
(* Cell d93e72bf: Generate Retention Risk Scores.  predict_proba raises    *)
(* when the matrix has not the number of columns the classifier was        *)
(* fitted with.                                                            *)
(***************************************************************************)
\* line 232: the matrix that is scored
ScoringX == X_scaled_selected

ScoreCell ==
    /\ pc = "evaluated"
    /\ raised = ""
    /\ IF Cardinality(ScoringX.columns) # calibrated_rf.n_features_in_
       THEN /\ raised' = "ValueError"
            /\ UNCHANGED << pc, df, percentile_50, percentile_90 >>
       ELSE \E prob \in ProbBatches(Len(ScoringX.rows)) :
            \E risk \in {RetentionRisk(prob)} :
            \E q90 \in {Quantile(risk, Q90)} :
            \E q50 \in {Quantile(risk, Q50)} :
            \E lev \in {Cut(risk, << NegInf, q50, q90, PosInf >>, RiskLabels)} :
            \E df2 \in {SetCol(SetCol(df, "Predicted_Prob_Stay", prob),
                               "Retention_Risk", risk)} :
               /\ percentile_90' = q90
               /\ percentile_50' = q50
               /\ raised' = lev.raised
               /\ IF lev.raised # ""
                  THEN df' = df2 /\ UNCHANGED pc
                  ELSE df' = SetCol(df2, "Risk_Level", lev.values) /\ pc' = "scored"
    /\ UNCHANGED << fe_runs, scaler_std, calibrated_rf, cv_scores, df_sorted, df_loaded, X, y, X_scaled, X_train, X_test, y_train, y_test, X_train_resampled, y_train_resampled, rfe_support, X_selected, X_scaled_selected, X_train_sel, X_test_sel, y_train_sel, y_test_sel, X_train_sel_res, y_train_sel_res >>

(***************************************************************************)
(* Cell 1df3012f: Export Results.                                          *)
(* df.sort_values(by = "Retention_Risk", ascending = False): pandas        *)
(* reverses the rows, argsorts ascending with kind = "quicksort" and       *)
(* reverses the result.  numpy's quicksort is an introsort that is not     *)
(* stable, and builds with SIMD sorting order equal keys differently       *)
(* again: rows of equal risk come in any order.                            *)
(***************************************************************************)
\* the indexers that start with prefix, where before[i] is the number of
\* rows whose value comes strictly before that of row i: the next row is
\* any row not yet placed with no more rows before it than are placed
RECURSIVE Arrange(_, _)
Arrange(before, prefix) ==
    IF Len(prefix) = Len(before) THEN {prefix}
    ELSE UNION {Arrange(before, Append(prefix, i)) :
                   i \in {j \in 1..Len(before) :
                             before[j] <= Len(prefix) /\ j \notin Values(prefix)}}

ArgSort(col, ascending) ==
    Arrange([i \in 1..Len(col) |->
                Cardinality({j \in 1..Len(col) :
                                IF ascending THEN FLt(col[j], col[i])
                                ELSE FLt(col[i], col[j])})],
            << >>)

\* a variant that ignores the ascending flag (it is not pandas')
SortValuesAscending(d, by, ascending) ==
    {Take(d, indexer) : indexer \in ArgSort(d[by], TRUE)}

\* the tables d.sort_values(by, ascending) can return
SortValues(d, by, ascending) ==
    {Take(d, indexer) : indexer \in ArgSort(d[by], ascending)}

\* line 260: to_excel writes the file ("") or raises: the directory
\* ../outputs may be missing, and so may the module that writes xlsx files
ToExcel == {"", "OSError", "ModuleNotFoundError"}

ExportCell ==
    /\ pc = "scored"
    /\ raised = ""
    /\ df_sorted' \in SortValues(df, "Retention_Risk", FALSE)
    /\ \E exception \in ToExcel :
          /\ raised' = exception
          /\ pc' = IF exception = "" THEN "exported" ELSE pc
    /\ UNCHANGED << fe_runs, df, scaler_std, calibrated_rf, cv_scores, percentile_50, percentile_90, df_loaded, X, y, X_scaled, X_train, X_test, y_train, y_test, X_train_resampled, y_train_resampled, rfe_support, X_selected, X_scaled_selected, X_train_sel, X_test_sel, y_train_sel, y_test_sel, X_train_sel_res, y_train_sel_res >>

(***************************************************************************)
(* The tables the notebook is run on.  The Excel file is not part of the   *)
(* repository: a table has the identifier, the target and some of the      *)
(* feature columns of the IBM attrition data, with small integer entries.  *)
(***************************************************************************)
Sources ==
    { "JobSatisfaction", "WorkLifeBalance", "YearsSinceLastPromotion",
      "YearsAtCompany", "Doing_Overtime", "Laboratory_Technician" }

FeatureNames ==
    << "JobSatisfaction", "WorkLifeBalance", "YearsSinceLastPromotion",
       "YearsAtCompany", "Doing_Overtime", "Laboratory_Technician",
       "Age", "DailyRate", "DistanceFromHome", "Education",
       "EnvironmentSatisfaction", "HourlyRate", "JobInvolvement", "JobLevel",
       "MonthlyIncome", "MonthlyRate", "NumCompaniesWorked",
       "PercentSalaryHike", "PerformanceRating", "StockOptionLevel",
       "TotalWorkingYears", "TrainingTimesLastYear" >>

RawFeatures(k) == {FeatureNames[j] : j \in 1..k}

\* Retained is 0 for the rows in leavers and 1 for the others; the other
\* entries of row i are small integers, in variant v of the data
LoadedTable(n, features, leavers, v) ==
    [c \in {"EmployeeNumber", "Retained"} \cup features |->
        [i \in 1..n |->
            CASE c = "EmployeeNumber" -> 1000 + i
              [] c = "Retained" -> (IF i \in leavers THEN 0 ELSE 1)
              [] c = "JobSatisfaction" -> 1 + ((i + v) % 4)
              [] c = "WorkLifeBalance" -> 1 + (((i + v) \div 2) % 4)
              [] c = "YearsAtCompany" -> (i + v) % 5
              [] c = "YearsSinceLastPromotion" -> ((i + v) % 5) \div 2
              [] c = "Doing_Overtime" -> (i + v) % 2
              [] c = "Laboratory_Technician" -> ((i + v) \div 2) % 2
              [] OTHER -> (i * (CHOOSE j \in 1..Len(FeatureNames) : FeatureNames[j] = c) + v) % 7]]

NothingPrepared ==
    /\ X = Unset /\ y = Unset /\ scaler_std = Unset /\ X_scaled = Unset
    /\ X_train = Unset /\ X_test = Unset /\ y_train = Unset /\ y_test = Unset
    /\ X_train_resampled = Unset /\ y_train_resampled = Unset
    /\ rfe_support = Unset /\ X_selected = Unset /\ X_scaled_selected = Unset
    /\ X_train_sel = Unset /\ X_test_sel = Unset
    /\ y_train_sel = Unset /\ y_test_sel = Unset
    /\ X_train_sel_res = Unset /\ y_train_sel_res = Unset
    /\ calibrated_rf = Unset /\ cv_scores = Unset
    /\ percentile_50 = Unset /\ percentile_90 = Unset /\ df_sorted = Unset

\* the state after cell 1c4934a0 ran once on table t
Engineered(t) ==
    /\ pc = "engineered"
    /\ raised = ""
    /\ fe_runs = 1
    /\ df_loaded = t
    /\ df = FeatureEngineering(t).df
    /\ NothingPrepared

\* the first l rows of the training partition of a table of n rows
TrainLeavers(n, l) ==
    {Permutation(RandomState42, n)[k] : k \in (NumTest(n) + 1)..(NumTest(n) + l)}

(***************************************************************************)
(* Feature engineering on small tables with any of the six source columns, *)
(* run and run again.                                                      *)
(***************************************************************************)
FERows == 3

\* the state after cell 249c6462 read table t; stale: the table already
\* has an Engagement_Index column
InitFE ==
    \E S \in SUBSET Sources : \E v \in 0..1 : \E stale \in BOOLEAN :
    \E t \in {IF stale
              THEN SetCol(LoadedTable(FERows, S \cup {"Age"}, {1}, v),
                          "Engagement_Index", [i \in 1..FERows |-> 0])
              ELSE LoadedTable(FERows, S \cup {"Age"}, {1}, v)} :
        /\ pc = "loaded"
        /\ raised = ""
        /\ fe_runs = 0
        /\ df_loaded = t
        /\ df = t
        /\ NothingPrepared

NextFE == FeatureEngineeringCell

SpecFE == InitFE /\ [][NextFE]_vars

(***************************************************************************)
(* Prepare, split, balance, select and train, on a large and a small       *)
(* table, a table of one row and a table without rows (the scaler and the  *)
(* split raise), with one column fewer than RFE keeps up to one column     *)
(* more.  The leavers are the first rows of the training partition: none   *)
(* (one class: SMOTE raises), three (too few of them: SMOTE raises), six   *)
(* (in the large table SMOTE synthesises; the small one is left with two   *)
(* stayers and SMOTE raises), or half of the partition (SMOTE adds         *)
(* nothing; in the small table each class then has too few rows for the    *)
(* calibration).  A table whose training partition is balanced with six    *)
(* rows of each class is taken without a feature column (the scaler        *)
(* raises), with a single one (RFE raises) and with two more than RFE      *)
(* keeps (the elimination runs a second round).                            *)
(***************************************************************************)
SelectRows == 17
SmallRows == 10
RefitRows == 15

InitSelect ==
    \/ \E n \in {SelectRows, SmallRows} \cup 0..1 :
       \E k \in (n_features_to_select - 4)..(n_features_to_select - 2) :
       \E l \in {c \in {0, 3, 6, (n - NumTest(n)) \div 2} : c <= n - NumTest(n)} :
           Engineered(LoadedTable(n, RawFeatures(k), TrainLeavers(n, l), 0))
    \/ \E k \in {0, 1, n_features_to_select - 1} :
           Engineered(LoadedTable(RefitRows, RawFeatures(k),
                                  TrainLeavers(RefitRows,
                                               (RefitRows - NumTest(RefitRows)) \div 2), 0))

NextSelect == PrepareCell \/ SplitCell \/ SelectCell \/ TrainCell

SpecSelect == InitSelect /\ [][NextSelect]_vars

(***************************************************************************)
(* The run from the engineered table to the scored one, on a table with as *)
(* many columns as RFE keeps and on one with a column more, which RFE      *)
(* drops: any of the columns.  The training partition is balanced.         *)
(***************************************************************************)
InitRefit ==
    \E k \in (n_features_to_select - 3)..(n_features_to_select - 2) :
        Engineered(LoadedTable(RefitRows, RawFeatures(k),
                               TrainLeavers(RefitRows,
                                            (RefitRows - NumTest(RefitRows)) \div 2), 0))

NextRefit ==
    PrepareCell \/ SplitCell \/ SelectCell \/ TrainCell \/ EvaluateCell \/ ScoreCell

SpecRefit == InitRefit /\ [][NextRefit]_vars

(***************************************************************************)
(* The whole run from the engineered table to the exported one, on tables  *)
(* of three sizes whose training partition is balanced, scored with every  *)
(* batch of probabilities.  Thirteen rows are the fewest the run can       *)
(* score: each class needs five training rows for the calibration.  The    *)
(* leavers are half of the training partition, and with them or without    *)
(* them the first row of the test partition: of thirteen rows with five    *)
(* leavers every cross-validation fit has four and the evaluation raises.  *)
(***************************************************************************)
NRows == 20

InitScore ==
    \E n \in {c \in {NRows - 7, NRows - 5, NRows} : (c - NumTest(c)) % 2 = 0} :
    \E t \in 0..1 :
        Engineered(LoadedTable(n, RawFeatures(n_features_to_select - 3),
                               TrainLeavers(n, (n - NumTest(n)) \div 2)
                                   \cup {Permutation(RandomState42, n)[k] : k \in 1..t}, 0))

NextScore ==
    \/ PrepareCell \/ SplitCell \/ SelectCell \/ TrainCell
    \/ EvaluateCell \/ ScoreCell \/ ExportCell

SpecScore == InitScore /\ [][NextScore]_vars
(***************************************************************************)
(* Properties of feature engineering (SpecFE)                              *)
(***************************************************************************)
\* the engineered columns with their two source columns
Engineered3 ==
    { << "Engagement_Index", "JobSatisfaction", "WorkLifeBalance" >>,
      << "Promotion_Rate", "YearsSinceLastPromotion", "YearsAtCompany" >>,
      << "Overtime_SensitiveRole", "Doing_Overtime", "Laboratory_Technician" >> }

HasSources(d, f) == f[2] \in DOMAIN d /\ f[3] \in DOMAIN d

\* the value the notebook's formula gives row i of table d for feature f
Expected(d, f, i) ==
    IF f[1] = "Promotion_Rate"
    THEN FDiv(FOfInt(d[f[2]][i]), FOfInt(d[f[3]][i] + 1))
    ELSE d[f[2]][i] * d[f[3]][i]

Added == {f[1] : f \in {g \in Engineered3 : HasSources(df_loaded, g)}}

\* C6: once the feature engineering cell has run on the loaded table, no
\* error was raised; each of the three features is in the table with the
\* values of its formula if both its source columns were loaded, and is
\* otherwise in the table only if it was loaded; every other column is as
\* it was loaded.
FeatureAddedIffSourcesPresent ==
    fe_runs >= 1 =>
        /\ raised = ""
        /\ pc = "engineered"
        /\ DOMAIN df = DOMAIN df_loaded \cup Added
        /\ \A f \in Engineered3 :
              HasSources(df_loaded, f) =>
                 df[f[1]] = [i \in 1..NumRows(df_loaded) |-> Expected(df_loaded, f, i)]
        /\ \A c \in DOMAIN df_loaded \ Added : df[c] = df_loaded[c]

\* C6 witness: one feature was added while another was skipped for a
\* missing source column, and the run raised nothing
OneAddedOneSkipped ==
    /\ fe_runs = 1
    /\ raised = ""
    /\ "Engagement_Index" \in DOMAIN df
    /\ "Engagement_Index" \notin DOMAIN df_loaded
    /\ "YearsAtCompany" \in DOMAIN df_loaded
    /\ "YearsSinceLastPromotion" \notin DOMAIN df_loaded
    /\ "Promotion_Rate" \notin DOMAIN df

\* C7: a run of the feature engineering cell after the first leaves the
\* table as it is: the same columns with the same values.
SecondRunChangesNothing ==
    [][(fe_runs >= 1 /\ fe_runs' = fe_runs + 1) => (df' = df /\ raised' = "")]_vars

\* C7 witness: the cell has run twice on a table with the three derived
\* columns
RanTwiceOnEngineered ==
    /\ fe_runs = 2
    /\ {"Engagement_Index", "Promotion_Rate", "Overtime_SensitiveRole"} \subseteq DOMAIN df
    /\ "Promotion_Rate" \notin DOMAIN df_loaded

(***************************************************************************)
(* Properties of the split, the balancing and the selection (SpecSelect)   *)
(***************************************************************************)
Bases(rows) == {rows[k].base : k \in 1..Len(rows)}

\* the partitions tr and te of matrix m with labels yte of the test rows,
\* and the resampled training rows res with labels yres
OnlyTrainExtended(m, tr, ytr, te, yte, res, yres) ==
    /\ Len(tr.rows) + Len(te.rows) = Len(m.rows)
    /\ Len(yte) = Len(te.rows)
    /\ \A k \in 1..Len(te.rows) :
          /\ te.rows[k] \in Values(m.rows)
          /\ ~IsSynthetic(te.rows[k])
          /\ yte[k] = y[te.rows[k].base]
    /\ Cardinality(Bases(te.rows)) = Len(te.rows)
    /\ Bases(tr.rows) \cap Bases(te.rows) = {}
    /\ Len(res.rows) >= Len(tr.rows)
    /\ SubSeq(res.rows, 1, Len(tr.rows)) = tr.rows
    /\ SubSeq(yres, 1, Len(ytr)) = ytr
    /\ Len(yres) = Len(res.rows)
    /\ \A k \in (Len(tr.rows) + 1)..Len(res.rows) :
          /\ IsSynthetic(res.rows[k])
          /\ res.rows[k].base \in Bases(tr.rows)
          /\ res.rows[k].neighbour \in Bases(tr.rows)
          /\ y[res.rows[k].base] = yres[k]
          /\ y[res.rows[k].neighbour] = yres[k]
    /\ Count(yres, 0) = Count(yres, 1)

\* C8: after each of the two balancing calls the test partition is the
\* rows the split put there, none of them synthesised, with the labels of
\* those rows; the resampled training set is the training partition
\* followed by rows synthesised between training rows only.
BalancerTouchesOnlyTrain ==
    /\ pc \in {"balanced", "selected", "trained"} =>
          OnlyTrainExtended(X_scaled, X_train, y_train, X_test, y_test,
                            X_train_resampled, y_train_resampled)
    /\ pc \in {"selected", "trained"} =>
          OnlyTrainExtended(X_scaled_selected, X_train_sel, y_train_sel, X_test_sel,
                            y_test_sel, X_train_sel_res, y_train_sel_res)

\* C8 witness: both balancing calls have synthesised rows
BothCallsSynthesised ==
    /\ pc = "selected"
    /\ Len(X_train_resampled.rows) > Len(X_train.rows)
    /\ Len(X_train_sel_res.rows) > Len(X_train_sel.rows)
    /\ Len(X_test_sel.rows) > 0

\* C9: when the feature matrix has at least n_features_to_select columns,
\* the selection ends with exactly that many columns of the feature
\* matrix, and the selected table and the matrices made of it have exactly
\* those columns, with the values of the feature matrix.
SelectorKeepsExactlyTwenty ==
    (pc \in {"selected", "trained"} /\ Cardinality(DOMAIN X) >= n_features_to_select) =>
        /\ Cardinality(rfe_support) = n_features_to_select
        /\ rfe_support \subseteq DOMAIN X
        /\ DOMAIN X_selected = rfe_support
        /\ \A c \in rfe_support : X_selected[c] = X[c]
        /\ X_scaled_selected.columns = rfe_support
        /\ X_train_sel_res.columns = rfe_support
        /\ X_test_sel.columns = rfe_support
        /\ pc = "trained" => calibrated_rf.n_features_in_ = n_features_to_select

\* C9 witness: the loop has run a second round: of a feature matrix with
\* two columns more than n_features_to_select it has eliminated two, and
\* the classifier was trained on the selected ones
SelectorDroppedAColumn ==
    /\ pc = "trained"
    /\ Cardinality(DOMAIN X) >= n_features_to_select + 2
    /\ Cardinality(DOMAIN X \ DOMAIN X_selected) >= 2
    /\ Cardinality(DOMAIN X_selected) = n_features_to_select

(***************************************************************************)
(* Properties of scoring and export (SpecScore, SpecRefit)                 *)
(***************************************************************************)
Rows == 1..NumRows(df)
Prob(i) == df["Predicted_Prob_Stay"][i]
Risk(i) == df["Retention_Risk"][i]
Level(i) == df["Risk_Level"][i]
Tiered == pc \in {"scored", "exported"}
NumLevel(l) == Count(df["Risk_Level"], l)

\* C1: every Retention_Risk of a scored batch lies in [0, 1], and a row
\* with a strictly larger Predicted_Prob_Stay than another has a strictly
\* smaller Retention_Risk.
RiskInUnitIntervalAndDecreasing ==
    "Retention_Risk" \in DOMAIN df =>
        \A i \in Rows :
            /\ FLe(FZero, Risk(i))
            /\ FLe(Risk(i), FOne)
            /\ \A j \in Rows : FLt(Prob(i), Prob(j)) => FLt(Risk(j), Risk(i))

AtOrBelow(p) == Cardinality({i \in Rows : FLe(Risk(i), p)})
AtOrAbove(p) == Cardinality({i \in Rows : FLe(p, Risk(i))})

\* p lies between the two risks of the batch next to position (n - 1) * pct / 100
IsPercentile(p, pct) ==
    /\ AtOrBelow(p) >= (((NumRows(df) - 1) * pct) \div 100) + 1
    /\ AtOrAbove(p) >= NumRows(df) - (((NumRows(df) - 1) * pct) \div 100) - 1

\* C2: in a tiered batch a row is Low Risk if its risk is at most
\* percentile_50, Moderate Risk if it is above percentile_50 and at most
\* percentile_90, and High Risk if it is above percentile_90, where each of
\* the two cut points has at least its share of the batch's risks at or
\* below it and at least the rest at or above it.
TierByPercentileClosedAbove ==
    Tiered =>
        /\ IsPercentile(percentile_50, 50)
        /\ IsPercentile(percentile_90, 90)
        /\ \A i \in Rows :
              Level(i) = IF FLe(Risk(i), percentile_50) THEN "Low Risk"
                         ELSE IF FLe(Risk(i), percentile_90) THEN "Moderate Risk"
                         ELSE "High Risk"

\* C2 witness: a row whose risk is percentile_50 is Low Risk and a row
\* whose risk is percentile_90 is Moderate Risk
RowsOnBothCutPoints ==
    /\ pc = "scored"
    /\ \E i \in Rows : Risk(i) = percentile_50 /\ Level(i) = "Low Risk"
    /\ \E j \in Rows : Risk(j) = percentile_90 /\ Level(j) = "Moderate Risk"

\* C3: once a batch has its risk scores, the tiering has raised nothing
\* and every row has one of the three levels.
TieringCompletes ==
    "Retention_Risk" \in DOMAIN df =>
        /\ raised = ""
        /\ "Risk_Level" \in DOMAIN df
        /\ \A i \in Rows : Level(i) \in Values(RiskLabels)

\* C4 as stated: the three counts of a tiered batch are within one row of
\* 50%, 40% and 10% of the rows.
CountsWithinOneRow ==
    Tiered =>
        /\ 2 * NumLevel("Low Risk") - NumRows(df) \in -2..2
        /\ 10 * NumLevel("Moderate Risk") - 4 * NumRows(df) \in -10..10
        /\ 10 * NumLevel("High Risk") - NumRows(df) \in -10..10

PairwiseDistinctRisk == \A i, j \in Rows : Risk(i) = Risk(j) => i = j

\* C4 amended: in a tiered batch at least 50% of the rows are Low Risk and
\* at most 10% of the rows plus one are High Risk; when the risks are
\* pairwise distinct, Low Risk is within one row of 50%, High Risk within
\* one row of 10% and Moderate Risk within two rows of 40% of the rows.
CountsOfDistinctRisks ==
    Tiered =>
        /\ 2 * NumLevel("Low Risk") >= NumRows(df)
        /\ 10 * NumLevel("High Risk") <= NumRows(df) + 10
        /\ PairwiseDistinctRisk =>
              /\ 2 * NumLevel("Low Risk") - NumRows(df) \in -2..2
              /\ 10 * NumLevel("High Risk") - NumRows(df) \in -10..10
              /\ 10 * NumLevel("Moderate Risk") - 4 * NumRows(df) \in -20..20

\* C4 witness: a tiered batch of pairwise distinct risks with rows in all
\* three levels, none of the three counts its exact share, and Moderate
\* Risk more than one row off 40% of the rows
DistinctRisksTiered ==
    /\ pc = "scored"
    /\ PairwiseDistinctRisk
    /\ \A l \in Values(RiskLabels) : NumLevel(l) > 0
    /\ 2 * NumLevel("Low Risk") # NumRows(df)
    /\ 10 * NumLevel("High Risk") # NumRows(df)
    /\ 10 * NumLevel("Moderate Risk") - 4 * NumRows(df) \notin -10..10

\* df_sorted has been assigned: the export cell ran to its end, or its
\* last statement raised
Sorted == pc = "exported" \/ (pc = "scored" /\ raised # "")

\* row k of the exported table is row i of the scored table
SameRow(k, i) == \A c \in DOMAIN df : df_sorted[c][k] = df[c][i]

\* C5: the exported table has the columns of the scored table, the three
\* score columns among them; each row of the scored table is in it exactly
\* once with all its values, the loaded ones unaltered; and no row has a
\* smaller risk than the row after it.
ExportIsSortedPermutation ==
    Sorted =>
        /\ DOMAIN df_sorted = DOMAIN df
        /\ {"Predicted_Prob_Stay", "Retention_Risk", "Risk_Level"} \subseteq DOMAIN df_sorted
        /\ NumRows(df_sorted) = NumRows(df_loaded)
        /\ \A c \in DOMAIN df_loaded : df[c] = df_loaded[c]
        /\ \A i \in Rows : Cardinality({k \in Rows : SameRow(k, i)}) = 1
        /\ \A k \in Rows : Cardinality({i \in Rows : SameRow(k, i)}) = 1
        /\ \A k \in 1..(NumRows(df) - 1) :
              FLe(df_sorted["Retention_Risk"][k + 1], df_sorted["Retention_Risk"][k])
        /\ \A i \in Rows : FLe(Risk(i), df_sorted["Retention_Risk"][1])

\* C5 witness: an exported batch with rows of equal risk that are neither
\* all in the order of the scored table nor all in the opposite order
ExportedReordered ==
    /\ pc = "exported"
    /\ \E i, j, k \in Rows :
          /\ i < j /\ j < k
          /\ Risk(i) = Risk(j) /\ Risk(j) = Risk(k)
          /\ \E a, b, c \in Rows :
                /\ SameRow(a, j) /\ SameRow(b, i) /\ SameRow(c, k)
                /\ a < b /\ b < c

\* C10: the classifier is trained on a matrix of the selected columns
\* from the fit the scaler holds, its second; and once a batch has been
\* scored the scaler has been fitted twice, first on all the feature
\* columns and then on the selected ones; the matrix that was scored and
\* the matrix the classifier was trained on have the same columns, the
\* selected ones, and both come from the second fit, the fit the scaler
\* holds; the matrices of the first fit have all the feature columns and
\* are not the ones trained on or scored.
ScoredAsTrained ==
    /\ pc \in {"trained", "evaluated"} =>
          /\ scaler_std.n_fits = 2
          /\ calibrated_rf.trained_on = [columns |-> rfe_support, fit |-> scaler_std.n_fits]
    /\ "Predicted_Prob_Stay" \in DOMAIN df =>
          /\ scaler_std.n_fits = 2
          /\ scaler_std.feature_names_in_ = DOMAIN X_selected
          /\ X_scaled.fit = 1
          /\ X_scaled.columns = DOMAIN X
          /\ X_train_resampled.fit = 1
          /\ X_train_resampled.columns = DOMAIN X
          /\ ScoringX.fit = scaler_std.n_fits
          /\ ScoringX.columns = DOMAIN X_selected
          /\ DOMAIN X_selected = rfe_support
          /\ calibrated_rf.trained_on = [columns |-> ScoringX.columns, fit |-> ScoringX.fit]
          /\ NumRows(df) = Len(ScoringX.rows)

\* C10 witness: a batch was scored, on the selected columns of a feature
\* matrix of which the selection had dropped a column, by a classifier
\* trained after both fits
ScoredAfterSecondFit ==
    /\ pc = "scored"
    /\ "Predicted_Prob_Stay" \in DOMAIN df
    /\ DOMAIN X_selected # DOMAIN X
    /\ X_scaled.columns # ScoringX.columns
    /\ scaler_std.n_fits = 2
    /\ calibrated_rf.fitted
    /\ calibrated_rf.trained_on.fit = 2
=============================================================================
